---- MODULE Spec2Model ----
(***************************************************************************)
(* The queue-driven scraping pipeline of NanikanoTool: the get_url lambda  *)
(* (Enumerator) and the save_img lambda (Collector).                       *)
(*                                                                         *)
(* Strings that the code inspects (URLs, blob keys) are sequences of       *)
(* one-character strings; JSON objects are functions from field names to   *)
(* values; a message body is the JSON text, which may fail to parse.       *)
(* Every call of an external service is an effect [op, arg, ret]: the      *)
(* call, its arguments and what it returned; a step of a stage is computed *)
(* as the list of the calls it completes and the error it raises, if any.  *)
(***************************************************************************)
EXTENDS Integers, Sequences, FiniteSets, TLC

VARIABLES
    stage,      \* which lambda this invocation runs: "get_url" or "save_img"
    nRetry,     \* int(ep.N_RETRY)
    records,    \* event["Records"]: the delivered batch of message bodies
    ix,         \* the handler's loop index (0-based, as enumerate gives)
    pc,         \* the handler's position: "start", "control", "sleep", "done",
                \* "failed" (control raised), "aborted" (from_env raised)
    eff,        \* external calls performed for the message processed last
    raised,     \* the error that message raised ("" if none)
    dropped,    \* whether that message was dropped by the retry check
    hist,       \* the invocation's trace: <<"control", ix>>, <<"sleep", ix>>
    indexPage,  \* the post-link hrefs an index page of the site lists
    itemPage,   \* the hrefs of the "external" links of an item page
    table,      \* DynamoDB: the Item Records written
    bucket,     \* S3: the objects written, <<key, data>>
    urlQueue,   \* SQS: messages in flight to get_url
    imgQueue,   \* SQS: messages in flight to save_img
    topic,      \* SNS: subjects of the notifications published
    environ,    \* os.environ of the lambdas: the keys that are set
    pkey,       \* the value of PKEY: the table's partition-key attribute name
    fault,      \* the external failure the message processed last met, if any
    scraped,    \* the item pages save_img fetched, in the order fetched
    dups        \* how many times the queues delivered a message again

vars == <<stage, nRetry, records, ix, pc, eff, raised, dropped, hist, indexPage,
          itemPage, table, bucket, urlQueue, imgQueue, topic, environ, pkey,
          fault, scraped, dups>>

-----------------------------------------------------------------------------
(* Bounds of the model *)

MaxBatch == 2       \* messages in a delivered batch
MaxItems == 2       \* post-links on an index page
MaxLinks == 3       \* external links on an item page
MaxDup == 1         \* deliveries of a message over again in a run

(* get_url: the last page of the site (index_urls) and the index after    *)
(* which the run is complete (service)                                     *)
LastPage == 191

MaxIndex == 191

-----------------------------------------------------------------------------
(* Strings *)

Digits == <<"0", "1", "2", "3", "4", "5", "6", "7", "8", "9">>

RECURSIVE Str(_)
(* str(n) for n >= 0 *)
Str(n) == IF n < 10 THEN <<Digits[n + 1]>>
          ELSE Str(n \div 10) \o <<Digits[(n % 10) + 1]>>

(* sub in s *)
Contains(s, sub) ==
    \E i \in 0..(Len(s) - Len(sub)) : SubSeq(s, i + 1, i + Len(sub)) = sub

(* s.endswith(sub) *)
EndsWith(s, sub) ==
    /\ Len(s) >= Len(sub)
    /\ SubSeq(s, Len(s) - Len(sub) + 1, Len(s)) = sub

RECURSIVE SeqsUpTo(_, _)
(* the sequences over S of length at most n *)
SeqsUpTo(S, n) ==
    IF n = 0 THEN {<<>>}
    ELSE LET shorter == SeqsUpTo(S, n - 1)
         IN  shorter \cup {Append(s, x) : s \in shorter, x \in S}

-----------------------------------------------------------------------------
(* JSON *)

EmptyObj == [k \in {} |-> 0]

(* dict.get(key, default) *)
Get(obj, key, default) == IF key \in DOMAIN obj THEN obj[key] ELSE default

(* json.dumps(obj) *)
JsonDumps(obj) == [valid |-> TRUE, obj |-> obj]

(* a message body that is no JSON text *)
BadJson == [valid |-> FALSE, obj |-> EmptyObj]

(* json.loads(text) *)
JsonLoads(text) ==
    IF text.valid THEN [raised |-> "", obj |-> text.obj]
    ELSE [raised |-> "JSONDecodeError", obj |-> EmptyObj]

-----------------------------------------------------------------------------
(* Effects *)

(* a completed call that returns nothing the code reads *)
Eff(op, arg) == [op |-> op, arg |-> arg, ret |-> <<>>]

(* a completed call and the value it returned *)
Call(op, arg, ret) == [op |-> op, arg |-> arg, ret |-> <<ret>>]

NoError == ""

(* The calls a step goes through when its failAt-th external call raises   *)
(* (failAt = 0, or beyond the last call: none does): the calls before it   *)
(* took effect, the failing one and those after it did not.  `after` is    *)
(* the error the code itself raises once the calls are through.            *)
(* A failure of kind "SSLError" inside the try of get_and_save_img (the     *)
(* download or the upload) is caught, and the handler's logger.exception() *)
(* call, which lacks its msg argument, raises TypeError in turn; any other *)
(* failure propagates as it is.                                            *)
Cut(calls, failAt, kind, after) ==
    IF failAt \in 1..Len(calls)
    THEN [eff |-> SubSeq(calls, 1, failAt - 1),
          raised |-> IF kind = "SSLError" /\ calls[failAt].op \in {"download", "upload"}
                     THEN "TypeError" ELSE kind]
    ELSE [eff |-> calls, raised |-> after]

Ops(effs, op) == SelectSeq(effs, LAMBDA e : e.op = op)

-----------------------------------------------------------------------------
(* get_url: the Enumerator *)

(* the value of the SSM parameter ep.URL_PARAM: the listing's base URL *)
BaseUrl == <<"B", "/">>

(* index_urls with the pages counted from 1: range(1, 191 + 1) *)
index_urls_from1(base_url) ==
    <<base_url>> \o
    [k \in 1..LastPage |-> base_url \o <<"p", "a", "g", "e", "/">> \o Str(k)]

(* index_urls(base_url) *)
index_urls(base_url) ==
    <<base_url>> \o
    [k \in 1..(LastPage - 1) |-> base_url \o <<"p", "a", "g", "e", "/">> \o Str(k + 1)]

(* Python's list[i]: negative indices count from the end *)
InRange(list, i) == -Len(list) <= i /\ i < Len(list)

PyIndex(list, i) == IF i >= 0 THEN list[i + 1] ELSE list[Len(list) + i + 1]

(* the message get_url sends to save_img when the listing is exhausted *)
StartSignal == [start |-> "get_url lambda"]

(* service with the outbound message sent before the items are put *)
get_url_service_sendfirst(body, page, failAt) ==
    LET idx == Get(body, "index", 0)
        param == <<Call("get_parameter", <<"URL_PARAM">>, BaseUrl)>>
        urls == index_urls(param[1].ret[1])
    IN  IF ~InRange(urls, idx) THEN Cut(param, failAt, "ExternalError", "IndexError")
        ELSE
        LET puts == [k \in 1..Len(page) |-> Eff("put", <<pkey, page[k]>>)]
            next_idx == idx + 1
            out == IF next_idx > MaxIndex
                   THEN << Eff("publish", <<"DB registered">>),
                           Eff("send", <<"IMG_QUEUE_URL", JsonDumps(StartSignal)>>) >>
                   ELSE << Eff("send", <<"URL_QUEUE_URL",
                                         JsonDumps([index |-> next_idx])>>) >>
        IN  Cut(param \o <<Call("fetch", <<PyIndex(urls, idx)>>, page)>> \o out \o puts,
                failAt, "ExternalError", NoError)

(* service(body, ep, dp); page is what archives_urls extracts from the     *)
(* fetched index page                                                      *)
get_url_service(body, page, failAt) ==
    LET idx == Get(body, "index", 0)
        param == <<Call("get_parameter", <<"URL_PARAM">>, BaseUrl)>>
        urls == index_urls(param[1].ret[1])
    IN  IF ~InRange(urls, idx) THEN Cut(param, failAt, "ExternalError", "IndexError")
        ELSE
        LET puts == [k \in 1..Len(page) |-> Eff("put", <<pkey, page[k]>>)]
            next_idx == idx + 1
            out == IF next_idx > MaxIndex
                   THEN << Eff("publish", <<"DB registered">>),
                           Eff("send", <<"IMG_QUEUE_URL", JsonDumps(StartSignal)>>) >>
                   ELSE << Eff("send", <<"URL_QUEUE_URL",
                                         JsonDumps([index |-> next_idx])>>) >>
        IN  Cut(param \o <<Call("fetch", <<PyIndex(urls, idx)>>, page)>> \o puts \o out,
                failAt, "ExternalError", NoError)

(* the retry check with >= for > *)
RetryOverEq(body, budget) == Get(body, "retry", 0) >= budget

(* the retry check of control / control_loop *)
RetryOver(body, budget) == Get(body, "retry", 0) > budget

(* a step's result *)
Result(effs, err, drop) == [eff |-> effs, raised |-> err, dropped |-> drop]

(* control of get_url without the return after the [RetryOver] log *)
get_url_control_noreturn(record, budget, page, failAt) ==
    LET parsed == JsonLoads(record.body)
    IN  IF parsed.raised # NoError THEN Result(<<>>, parsed.raised, FALSE)
        ELSE LET r == get_url_service(parsed.obj, page, failAt)
             IN  Result(r.eff, r.raised, RetryOver(parsed.obj, budget))

(* control of get_url with the commented-out except clause at work: a      *)
(* failure of service is caught and the message is sent again with its     *)
(* retry count raised by one                                               *)
get_url_control_retry(record, budget, page, failAt) ==
    LET parsed == JsonLoads(record.body)
    IN  IF parsed.raised # NoError THEN Result(<<>>, parsed.raised, FALSE)
        ELSE IF RetryOver(parsed.obj, budget) THEN Result(<<>>, NoError, TRUE)
        ELSE LET r == get_url_service(parsed.obj, page, failAt)
                 again == ("retry" :> (Get(parsed.obj, "retry", 0) + 1)) @@ parsed.obj
             IN  IF r.raised = NoError THEN Result(r.eff, NoError, FALSE)
                 ELSE Result(Append(r.eff, Eff("send", <<"URL_QUEUE_URL",
                                                         JsonDumps(again)>>)),
                             NoError, FALSE)

(* control(record, ep, dp) of get_url *)
get_url_control(record, budget, page, failAt) ==
    LET parsed == JsonLoads(record.body)
    IN  IF parsed.raised # NoError THEN Result(<<>>, parsed.raised, FALSE)
        ELSE IF RetryOver(parsed.obj, budget) THEN Result(<<>>, NoError, TRUE)
        ELSE LET r == get_url_service(parsed.obj, page, failAt)
             IN  Result(r.eff, r.raised, FALSE)

-----------------------------------------------------------------------------
(* save_img: the Collector *)

Slash == "/"

RECURSIVE LastSegment(_)
(* s.split("/")[-1] *)
LastSegment(s) ==
    IF s = <<>> THEN <<>>
    ELSE IF s[Len(s)] = Slash THEN <<>>
    ELSE Append(LastSegment(SubSeq(s, 1, Len(s) - 1)), s[Len(s)])

(* ServiceParam.of(archive_url) *)
ServiceParam(archive_url) ==
    [archive_number |-> LastSegment(archive_url), archive_url |-> archive_url]

RECURSIVE Zfill(_, _)
(* s.zfill(width) *)
Zfill(s, width) == IF Len(s) >= width THEN s ELSE Zfill(<<"0">> \o s, width)

(* the key numbered on from the objects the bucket already holds *)
ImgKeyStored(sp, img_index) ==
    sp.archive_number \o <<"_">> \o Zfill(Str(img_index + Cardinality(bucket)), 3)
    \o <<".", "p", "n", "g">>

(* the key save_img uploads under *)
ImgKey(sp, img_index) ==
    sp.archive_number \o <<"_">> \o Zfill(Str(img_index), 3) \o <<".", "p", "n", "g">>

(* get_img(img_url): the bytes the URL serves *)
get_img(img_url) == [content_of |-> img_url]

(* the filter without the test for "naver" *)
QualifiesAnyHost(img_url) == Contains(img_url, <<"j", "p", "g">>)

(* the filter of get_and_save_img *)
Qualifies(img_url) ==
    /\ Contains(img_url, <<"j", "p", "g">>)
    /\ ~Contains(img_url, <<"n", "a", "v", "e", "r">>)

RECURSIVE ImgLoopEveryLink(_, _, _)
(* the loop with index += 1 outside the if: every link advances the index *)
ImgLoopEveryLink(links, index, sp) ==
    IF links = <<>> THEN <<>>
    ELSE LET img_url == Head(links)
         IN  IF Qualifies(img_url)
             THEN << Call("download", <<img_url>>, get_img(img_url)),
                     Eff("upload", <<ImgKey(sp, index), get_img(img_url)>>) >>
                  \o ImgLoopEveryLink(Tail(links), index + 1, sp)
             ELSE ImgLoopEveryLink(Tail(links), index + 1, sp)

RECURSIVE ImgLoop(_, _, _)
(* the loop of get_and_save_img over the external links, from `index` *)
ImgLoop(links, index, sp) ==
    IF links = <<>> THEN <<>>
    ELSE LET img_url == Head(links)
         IN  IF Qualifies(img_url)
             THEN << Call("download", <<img_url>>, get_img(img_url)),
                     Eff("upload", <<ImgKey(sp, index), get_img(img_url)>>) >>
                  \o ImgLoop(Tail(links), index + 1, sp)
             ELSE ImgLoop(Tail(links), index, sp)

(* get_and_save_img with the index counted on from the objects the bucket  *)
(* already holds, not from 0                                               *)
get_and_save_img_counter(sp, page) ==
    <<Call("fetch", <<sp.archive_url>>, page)>> \o ImgLoop(page, Cardinality(bucket), sp)

(* get_and_save_img(ep, dp, sp); page is the hrefs of the external links   *)
(* of the fetched item page                                                *)
get_and_save_img(sp, page) ==
    <<Call("fetch", <<sp.archive_url>>, page)>> \o ImgLoop(page, 0, sp)

(* control of save_img with DynamoDb.scan not raising on more than one     *)
(* record: the step goes on as if there were none                          *)
save_img_control_nocheck(body, resp, page, failAt, kind) ==
    LET start == Get(body, "LastEvaluatedKey", "")
        scan == <<Call("scan", IF start # "" THEN <<start>> ELSE <<>>, resp)>>
    IN  IF Len(resp.Items) = 1 /\ "archive_url" \notin DOMAIN resp.Items[1]
        THEN Cut(scan, failAt, kind, "KeyError")
        ELSE
        LET img == IF Len(resp.Items) = 1
                   THEN get_and_save_img(ServiceParam(resp.Items[1].archive_url.S), page)
                   ELSE <<>>
            out == IF "LastEvaluatedKey" \in DOMAIN resp
                   THEN << Eff("send", <<"IMG_QUEUE_URL",
                               JsonDumps([LastEvaluatedKey |-> resp.LastEvaluatedKey])>>) >>
                   ELSE << Eff("publish", <<"all done">>) >>
        IN  Cut(scan \o img \o out, failAt, kind, NoError)

(* control of save_img with the completion published by every step: the   *)
(* else of the second conditional lost                                     *)
save_img_control_noelse(body, resp, page, failAt, kind) ==
    LET start == Get(body, "LastEvaluatedKey", "")
        scan == <<Call("scan", IF start # "" THEN <<start>> ELSE <<>>, resp)>>
    IN  IF Len(resp.Items) > 1 THEN Cut(scan, failAt, kind, "Exception")
        ELSE IF Len(resp.Items) = 1 /\ "archive_url" \notin DOMAIN resp.Items[1]
        THEN Cut(scan, failAt, kind, "KeyError")
        ELSE
        LET img == IF Len(resp.Items) = 1
                   THEN get_and_save_img(ServiceParam(resp.Items[1].archive_url.S), page)
                   ELSE <<>>
            out == (IF "LastEvaluatedKey" \in DOMAIN resp
                    THEN << Eff("send", <<"IMG_QUEUE_URL",
                                JsonDumps([LastEvaluatedKey |-> resp.LastEvaluatedKey])>>) >>
                    ELSE <<>>)
                   \o << Eff("publish", <<"all done">>) >>
        IN  Cut(scan \o img \o out, failAt, kind, NoError)

(* control of save_img with the two conditionals made one chain: a record  *)
(* is scraped, else a key is sent on, else the completion is published     *)
save_img_control_chained(body, resp, page, failAt, kind) ==
    LET start == Get(body, "LastEvaluatedKey", "")
        scan == <<Call("scan", IF start # "" THEN <<start>> ELSE <<>>, resp)>>
    IN  IF Len(resp.Items) > 1 THEN Cut(scan, failAt, kind, "Exception")
        ELSE IF Len(resp.Items) = 1 /\ "archive_url" \notin DOMAIN resp.Items[1]
        THEN Cut(scan, failAt, kind, "KeyError")
        ELSE
        LET out == IF Len(resp.Items) = 1
                   THEN get_and_save_img(ServiceParam(resp.Items[1].archive_url.S), page)
                   ELSE IF "LastEvaluatedKey" \in DOMAIN resp
                   THEN << Eff("send", <<"IMG_QUEUE_URL",
                               JsonDumps([LastEvaluatedKey |-> resp.LastEvaluatedKey])>>) >>
                   ELSE << Eff("publish", <<"all done">>) >>
        IN  Cut(scan \o out, failAt, kind, NoError)

(* control(body, ep, dp) of save_img; resp is what the table's scan answers *)
save_img_control(body, resp, page, failAt, kind) ==
    LET start == Get(body, "LastEvaluatedKey", "")
        scan == <<Call("scan", IF start # "" THEN <<start>> ELSE <<>>, resp)>>
    IN  IF Len(resp.Items) > 1 THEN Cut(scan, failAt, kind, "Exception")
        ELSE IF Len(resp.Items) = 1 /\ "archive_url" \notin DOMAIN resp.Items[1]
        THEN Cut(scan, failAt, kind, "KeyError")
        ELSE
        LET img == IF Len(resp.Items) = 1
                   THEN get_and_save_img(ServiceParam(resp.Items[1].archive_url.S), page)
                   ELSE <<>>
            out == IF "LastEvaluatedKey" \in DOMAIN resp
                   THEN << Eff("send", <<"IMG_QUEUE_URL",
                               JsonDumps([LastEvaluatedKey |-> resp.LastEvaluatedKey])>>) >>
                   ELSE << Eff("publish", <<"all done">>) >>
        IN  Cut(scan \o img \o out, failAt, kind, NoError)

(* control_loop(record, ep, dp) of save_img *)
save_img_control_loop(record, budget, resp, page, failAt, kind) ==
    LET parsed == JsonLoads(record.body)
    IN  IF parsed.raised # NoError THEN Result(<<>>, parsed.raised, FALSE)
        ELSE IF RetryOver(parsed.obj, budget) THEN Result(<<>>, NoError, TRUE)
        ELSE LET r == save_img_control(parsed.obj, resp, page, failAt, kind)
             IN  Result(r.eff, r.raised, FALSE)

-----------------------------------------------------------------------------
(* The inputs: message bodies, the site's pages, the table's answers *)

ItemUrls == { <<"a", "/", "4", "2">>, <<"a", "/", "7">> }

(* f.jpg, naver.jpg, z.png, q.jpg, jpg/x.png *)
Hrefs ==
    { <<"f", ".", "j", "p", "g">>,
      <<"n", "a", "v", "e", "r", ".", "j", "p", "g">>,
      <<"z", ".", "p", "n", "g">>,
      <<"q", ".", "j", "p", "g">>,
      <<"j", "p", "g", "/", "x", ".", "p", "n", "g">> }

(* the item pages a batch of save_img is run against *)
SamplePages ==
    { <<>>,
      << <<"f", ".", "j", "p", "g">> >>,
      << <<"z", ".", "p", "n", "g">>, <<"q", ".", "j", "p", "g">> >> }

Budgets == {0, 1}

EnumBodies ==
    { JsonDumps(EmptyObj),
      JsonDumps([index |-> 191]),
      JsonDumps([index |-> 190, retry |-> 1]),
      JsonDumps([retry |-> 2]),
      BadJson }

CollBodies ==
    { JsonDumps(StartSignal),
      JsonDumps([LastEvaluatedKey |-> "k1", retry |-> 1]),
      JsonDumps([retry |-> 2]),
      BadJson }

Item(url) == [archive_url |-> [S |-> url]]

(* the values PKEY is configured with *)
PKeys == {"archive_url", "url"}

(* table.put_item(Item={pkey: url}) as client.scan returns it *)
StoredItem(row) == row[1] :> [S |-> row[2]]

(* what client.scan answers: up to two records, with or without a key; the *)
(* record's attribute is named as PKEY is configured                       *)
ScanResponses ==
    LET a == Item(<<"a", "/", "4", "2">>)
        b == Item(<<"a", "/", "7">>)
        c == StoredItem(<<"url", <<"a", "/", "4", "2">> >>)
        items == { <<>>, <<a>>, <<b>>, <<a, b>>, <<c>> }
    IN  {[Items |-> i] : i \in items}
        \cup {[Items |-> i, LastEvaluatedKey |-> "k2"] : i \in items}

FailKinds == {"SSLError", "ExternalError"}

Batches(bodies) == SeqsUpTo({[body |-> b] : b \in bodies}, MaxBatch)

-----------------------------------------------------------------------------
(* The services' state after a step's effects *)

RECURSIVE Uploaded(_, _)
(* put_object overwrites the object stored under the same key *)
Uploaded(objects, ups) ==
    IF ups = <<>> THEN objects
    ELSE LET key == Head(ups).arg[1]
         IN  Uploaded({o \in objects : o[1] # key} \cup {Head(ups).arg}, Tail(ups))

Range(f) == {f[i] : i \in DOMAIN f}

(* the bodies sent to `queue`, in the order sent *)
SentTo(effs, queue) ==
    LET sends == SelectSeq(effs, LAMBDA e : e.op = "send" /\ e.arg[1] = queue)
    IN  [k \in 1..Len(sends) |-> sends[k].arg[2]]

(* the item pages fetched by a step of save_img *)
Fetched(effs) ==
    IF stage = "save_img"
    THEN [k \in 1..Len(Ops(effs, "fetch")) |-> Ops(effs, "fetch")[k].arg[1]]
    ELSE <<>>

(* the keys client.scan hands out as LastEvaluatedKey, by row *)
KeyNames == <<"k1", "k2">>

(* the order in which the table's scan goes through the rows: some order,  *)
(* the same for every scan of the same table                               *)
ScanOrder(rows) == CHOOSE f \in [1..Cardinality(rows) -> rows] : Range(f) = rows

(* client.scan(Limit=1, ExclusiveStartKey=start) on the table: the row     *)
(* after the start key and that row's key; for the last row the key may or *)
(* may not come with it; past the last row, no record and no key           *)
TableScan(rows, start) ==
    LET order == ScanOrder(rows)
        p == IF start = "" THEN 0
             ELSE CHOOSE i \in 1..Len(KeyNames) : KeyNames[i] = start
    IN  IF p >= Len(order) THEN { [Items |-> <<>>] }
        ELSE LET item == StoredItem(order[p + 1])
                 keyed == [Items |-> <<item>>, LastEvaluatedKey |-> KeyNames[p + 1]]
             IN  IF p + 1 < Len(order) THEN {keyed}
                 ELSE {keyed, [Items |-> <<item>>]}

Apply(effs) ==
    /\ table' = table \cup {e.arg : e \in Range(Ops(effs, "put"))}
    /\ scraped' = scraped \o Fetched(effs)
    /\ bucket' = Uploaded(bucket, Ops(effs, "upload"))
    /\ urlQueue' = urlQueue \o SentTo(effs, "URL_QUEUE_URL")
    /\ imgQueue' = imgQueue \o SentTo(effs, "IMG_QUEUE_URL")
    /\ topic' = topic \o [k \in 1..Len(Ops(effs, "publish")) |->
                            Ops(effs, "publish")[k].arg[1]]

-----------------------------------------------------------------------------
(* lambda_handler *)

(* the keys EnvironParams names: from_env reads every one of them *)
Fields(st) ==
    IF st = "get_url"
    THEN {"LOG_LEVEL", "URL_QUEUE_URL", "IMG_QUEUE_URL", "PKEY", "URL_PARAM",
          "DB_NAME", "TOPICK_ARN", "N_RETRY"}
    ELSE {"LOG_LEVEL", "IMG_QUEUE_URL", "BUCKET_NAME", "DB_NAME", "TOPICK_ARN",
          "N_RETRY"}

(* from_env reading with os.environ.get: an absent key raises nothing *)
from_env_get(env, fields) == NoError

(* EnvironParams.from_env(): os.environ[k] for every field *)
from_env(env, fields) == IF fields \subseteq env THEN NoError ELSE "KeyError"

(* the environments an invocation runs in: complete, or one key absent *)
Environs(st) == {Fields(st)} \cup {Fields(st) \ {k} : k \in Fields(st)}

NoFault == [at |-> 0, kind |-> NoError]

(* the failAt-th external call of a step raises `kind` *)
Fault(failAt, kind) == IF failAt = 0 THEN NoFault ELSE [at |-> failAt, kind |-> kind]

(* the handler is invoked on a batch *)
Start(st, budget, batch, ipage, epage) ==
    /\ stage = st
    /\ nRetry = budget
    /\ records = batch
    /\ ix = 0
    /\ pc = "start"
    /\ eff = <<>>
    /\ raised = NoError
    /\ dropped = FALSE
    /\ hist = <<>>
    /\ indexPage = ipage
    /\ itemPage = epage
    /\ fault = NoFault
    /\ scraped = <<>>
    /\ dups = 0

NoServiceState ==
    /\ table = {}
    /\ bucket = {}
    /\ urlQueue = <<>>
    /\ imgQueue = <<>>
    /\ topic = <<>>

(* lambda_handler up to its loop: from_env, then the first record if any *)
Enter ==
    /\ pc = "start"
    /\ raised' = from_env(environ, Fields(stage))
    /\ pc' = IF raised' # NoError THEN "aborted"
             ELSE IF records = <<>> THEN "done"
             ELSE "control"
    /\ UNCHANGED <<stage, nRetry, records, ix, eff, dropped, hist, indexPage,
                   itemPage, table, bucket, urlQueue, imgQueue, topic, environ,
                   pkey, fault, scraped, dups>>

(* the wait's condition with len(records) for len(records) - 1 *)
WaitsAlways(i, n) == i # n

(* whether the loop waits after record ix *)
Waits(i, n) == i # n - 1

(* the loop's body with the error of control caught: the loop goes on *)
StepCaught(r) ==
    /\ eff' = r.eff
    /\ raised' = r.raised
    /\ dropped' = r.dropped
    /\ hist' = Append(hist, <<"control", ix>>)
    /\ Apply(r.eff)
    /\ pc' = IF Waits(ix, Len(records)) THEN "sleep" ELSE "done"
    /\ UNCHANGED <<stage, nRetry, records, ix, indexPage, itemPage, environ, pkey,
                   dups>>

(* the loop's body: control / control_loop on records[ix] *)
Step(r) ==
    /\ eff' = r.eff
    /\ raised' = r.raised
    /\ dropped' = r.dropped
    /\ hist' = Append(hist, <<"control", ix>>)
    /\ Apply(r.eff)
    /\ pc' = IF r.raised # NoError THEN "failed"
             ELSE IF Waits(ix, Len(records)) THEN "sleep"
             ELSE "done"
    /\ UNCHANGED <<stage, nRetry, records, ix, indexPage, itemPage, environ, pkey,
                   dups>>

(* the ordinals of the external calls of a step, any one of which may     *)
(* fail (0: none does); r is the step with no failure                      *)
FailPoints(r, mayFail) == IF mayFail THEN 0..Len(r.eff) ELSE {0}

(* get_url's lambda_handler on records[ix] *)
EnumControl(mayFail) ==
    /\ pc = "control"
    /\ stage = "get_url"
    /\ \E failAt \in FailPoints(get_url_control(records[ix + 1], nRetry, indexPage, 0),
                                mayFail) :
          /\ Step(get_url_control(records[ix + 1], nRetry, indexPage, failAt))
          /\ fault' = Fault(failAt, "ExternalError")

(* what the table's scan may answer to records[ix]: anything, or, paged,   *)
(* what the table holds after the message's key                            *)
Answers(paged) ==
    IF paged
    THEN TableScan(table, Get(records[ix + 1].body.obj, "LastEvaluatedKey", ""))
    ELSE ScanResponses

(* save_img's lambda_handler on records[ix] *)
CollControl(mayFail, paged) ==
    /\ pc = "control"
    /\ stage = "save_img"
    /\ \E resp \in Answers(paged) :
          \E failAt \in FailPoints(save_img_control_loop(records[ix + 1], nRetry, resp,
                                                         itemPage, 0, "ExternalError"),
                                   mayFail) :
             \E kind \in IF failAt = 0 THEN {"ExternalError"} ELSE FailKinds :
                /\ Step(save_img_control_loop(records[ix + 1], nRetry, resp,
                                              itemPage, failAt, kind))
                /\ fault' = Fault(failAt, kind)

(* time.sleep(5), and on to the next record *)
Sleep ==
    /\ pc = "sleep"
    /\ hist' = Append(hist, <<"sleep", ix>>)
    /\ ix' = ix + 1
    /\ pc' = "control"
    /\ UNCHANGED <<stage, nRetry, records, eff, raised, dropped, indexPage,
                   itemPage, table, bucket, urlQueue, imgQueue, topic, environ,
                   pkey, fault, scraped, dups>>

(* one invocation of either lambda on a delivered batch *)
Init ==
    /\ NoServiceState
    /\ pkey = "archive_url"
    /\ \/ /\ \E budget \in Budgets, batch \in Batches(EnumBodies),
                page \in SeqsUpTo(ItemUrls, MaxItems) :
                   Start("get_url", budget, batch, page, <<>>)
          /\ environ \in Environs("get_url")
       \/ /\ \E budget \in Budgets, batch \in Batches(CollBodies), page \in SamplePages :
                   Start("save_img", budget, batch, <<>>, page)
          /\ environ \in Environs("save_img")

Next == Enter \/ EnumControl(TRUE) \/ CollControl(TRUE, FALSE) \/ Sleep

Spec == Init /\ [][Next]_vars

-----------------------------------------------------------------------------
(* save_img run against every kind of item page: the first message of a   *)
(* batch of two is one the retry check drops                               *)

ImgInit ==
    /\ NoServiceState
    /\ pkey = "archive_url"
    /\ environ = Fields("save_img")
    /\ \E batch \in { << [body |-> JsonDumps(StartSignal)] >>,
                      << [body |-> JsonDumps([retry |-> 2])],
                         [body |-> JsonDumps(StartSignal)] >> },
          page \in SeqsUpTo(Hrefs, MaxLinks) :
             Start("save_img", 1, batch, <<>>, page)

ImgNext == Enter \/ CollControl(TRUE, FALSE) \/ Sleep

ImgSpec == ImgInit /\ [][ImgNext]_vars

-----------------------------------------------------------------------------
(* A run of get_url: the first message {} is delivered, then every message *)
(* sent is delivered alone, in turn, and no external call fails; every     *)
(* index page lists the same two items.  The event source deletes the     *)
(* messages of an invocation that returns and delivers those of an         *)
(* invocation that raises again.                                           *)

Deliver ==
    /\ pc = "done"
    /\ stage = "get_url"
    /\ urlQueue # <<>>
    /\ records' = << [body |-> Head(urlQueue)] >>
    /\ urlQueue' = Tail(urlQueue)
    /\ ix' = 0
    /\ pc' = "start"
    /\ hist' = <<>>
    /\ UNCHANGED <<stage, nRetry, eff, raised, dropped, indexPage, itemPage,
                   table, bucket, imgQueue, topic, environ, pkey, fault, scraped,
                   dups>>

Redeliver ==
    /\ pc = "failed"
    /\ ix' = 0
    /\ pc' = "start"
    /\ hist' = <<>>
    /\ UNCHANGED <<stage, nRetry, records, eff, raised, dropped, indexPage, itemPage,
                   table, bucket, urlQueue, imgQueue, topic, environ, pkey, fault,
                   scraped, dups>>

RunInit ==
    /\ NoServiceState
    /\ pkey = "archive_url"
    /\ environ = Fields("get_url")
    /\ \E budget \in Budgets :
          Start("get_url", budget, << [body |-> JsonDumps(EmptyObj)] >>,
                << <<"a", "/", "4", "2">>, <<"a", "/", "7">> >>, <<>>)

RunNext == Enter \/ EnumControl(FALSE) \/ Deliver \/ Redeliver

RunSpec == RunInit /\ [][RunNext]_vars /\ WF_vars(RunNext)

-----------------------------------------------------------------------------
(* A run of save_img over a table: the start signal is delivered, then     *)
(* every message sent is delivered alone, once, in turn; no external call  *)
(* fails and the table is not written to; the scan pages one row at a      *)
(* time.  The table holds what get_url put under the configured PKEY.      *)

DeliverImg ==
    /\ pc = "done"
    /\ stage = "save_img"
    /\ imgQueue # <<>>
    /\ records' = << [body |-> Head(imgQueue)] >>
    /\ imgQueue' = Tail(imgQueue)
    /\ ix' = 0
    /\ pc' = "start"
    /\ hist' = <<>>
    /\ UNCHANGED <<stage, nRetry, eff, raised, dropped, indexPage, itemPage,
                   table, bucket, urlQueue, topic, environ, pkey, fault, scraped,
                   dups>>

(* the rows get_url puts for the item URLs `urls` *)
Rows(urls) == {<<pkey, u>> : u \in urls}

ScanInit ==
    /\ pkey \in PKeys
    /\ environ = Fields("save_img")
    /\ \E urls \in SUBSET ItemUrls : table = Rows(urls)
    /\ bucket = {}
    /\ urlQueue = <<>>
    /\ imgQueue = <<>>
    /\ topic = <<>>
    /\ \E budget \in Budgets, page \in SamplePages :
          Start("save_img", budget, << [body |-> JsonDumps(StartSignal)] >>, <<>>, page)

ScanNext == Enter \/ CollControl(FALSE, TRUE) \/ DeliverImg \/ Redeliver

ScanSpec == ScanInit /\ [][ScanNext]_vars /\ WF_vars(ScanNext)

-----------------------------------------------------------------------------
(* The pipeline under at-least-once delivery: the queues deliver any       *)
(* message in flight to its lambda, in any order, and may deliver a        *)
(* message over again; the message of an invocation that raised goes back  *)
(* to its queue, or is dropped when its retention period is over.  No      *)
(* external call fails; every index page lists the same two items and the  *)
(* scan pages one row at a time.  Either get_url is two pages from the end *)
(* of the listing and the table is empty (its message may carry a retry    *)
(* count within the budget), or the table is filled, save_img is to start  *)
(* and a message of get_url is still in flight.                            *)

QueueOf(st) == IF st = "get_url" THEN urlQueue ELSE imgQueue

Without(q, i) == SubSeq(q, 1, i - 1) \o SubSeq(q, i + 1, Len(q))

(* a message in flight is delivered, and deleted once processed *)
DeliverAny ==
    /\ pc = "done"
    /\ \E st \in {"get_url", "save_img"} :
          \E i \in 1..Len(QueueOf(st)) :
             /\ stage' = st
             /\ records' = << [body |-> QueueOf(st)[i]] >>
             /\ urlQueue' = IF st = "get_url" THEN Without(urlQueue, i) ELSE urlQueue
             /\ imgQueue' = IF st = "save_img" THEN Without(imgQueue, i) ELSE imgQueue
    /\ ix' = 0
    /\ pc' = "start"
    /\ hist' = <<>>
    /\ UNCHANGED <<nRetry, eff, raised, dropped, indexPage, itemPage, table, bucket,
                   topic, environ, pkey, fault, scraped, dups>>

(* a message in flight is delivered and stays in flight: it will be        *)
(* delivered again                                                         *)
DeliverAgain ==
    /\ pc = "done"
    /\ dups < MaxDup
    /\ dups' = dups + 1
    /\ \E st \in {"get_url", "save_img"} :
          \E i \in 1..Len(QueueOf(st)) :
             /\ stage' = st
             /\ records' = << [body |-> QueueOf(st)[i]] >>
    /\ ix' = 0
    /\ pc' = "start"
    /\ hist' = <<>>
    /\ UNCHANGED <<nRetry, eff, raised, dropped, indexPage, itemPage, table, bucket,
                   urlQueue, imgQueue, topic, environ, pkey, fault, scraped>>

(* the invocation raised: its message is in flight again *)
Return ==
    /\ pc = "failed"
    /\ urlQueue' = IF stage = "get_url" THEN urlQueue \o <<records[1].body>> ELSE urlQueue
    /\ imgQueue' = IF stage = "save_img" THEN imgQueue \o <<records[1].body>> ELSE imgQueue
    /\ pc' = "done"
    /\ UNCHANGED <<stage, nRetry, records, ix, eff, raised, dropped, hist, indexPage,
                   itemPage, table, bucket, topic, environ, pkey, fault, scraped,
                   dups>>

(* the invocation raised and the message's retention period is over *)
Expire ==
    /\ pc = "failed"
    /\ pc' = "done"
    /\ UNCHANGED <<stage, nRetry, records, ix, eff, raised, dropped, hist, indexPage,
                   itemPage, table, bucket, urlQueue, imgQueue, topic, environ, pkey,
                   fault, scraped, dups>>

ReplayPage == << <<"a", "/", "4", "2">>, <<"a", "/", "7">> >>

ReplayInit ==
    /\ pkey \in PKeys
    /\ bucket = {}
    /\ topic = <<>>
    /\ records = <<>>
    /\ ix = 0
    /\ pc = "done"
    /\ eff = <<>>
    /\ raised = NoError
    /\ dropped = FALSE
    /\ hist = <<>>
    /\ indexPage = ReplayPage
    /\ itemPage \in SamplePages
    /\ fault = NoFault
    /\ scraped = <<>>
    /\ dups = 0
    /\ nRetry \in Budgets
    /\ environ = Fields("get_url") \cup Fields("save_img")
    /\ \/ /\ stage = "get_url"
          /\ table = {}
          /\ \E m \in {[index |-> 189], [index |-> 189, retry |-> 1]} :
                /\ Get(m, "retry", 0) <= nRetry
                /\ urlQueue = << JsonDumps(m) >>
          /\ imgQueue = <<>>
       \/ /\ stage = "save_img"
          /\ table = Rows(Range(ReplayPage))
          /\ urlQueue = << JsonDumps([index |-> 190]) >>
          /\ imgQueue = << JsonDumps(StartSignal) >>

ReplayNext ==
    \/ Enter
    \/ EnumControl(FALSE)
    \/ CollControl(FALSE, TRUE)
    \/ DeliverAny
    \/ DeliverAgain
    \/ Return
    \/ Expire

ReplaySpec == ReplayInit /\ [][ReplayNext]_vars

-----------------------------------------------------------------------------
(* What the properties below read off a state *)

(* control / control_loop has just run on records[ix + 1]; eff, raised and *)
(* dropped are its outcome                                                 *)
Processed == pc \in {"sleep", "done", "failed"} /\ hist # <<>>

LastText == records[ix + 1].body

LastBody == LastText.obj

(* the message parsed and passed the retry check: the stage logic ran *)
Admitted == Processed /\ LastText.valid /\ ~dropped

(* the outbound signals of the step, in the order made *)
Signals == SelectSeq(eff, LAMBDA e : e.op \in {"send", "publish"})

Completion == Eff("publish", <<"DB registered">>)

StartSend == Eff("send", <<"IMG_QUEUE_URL", JsonDumps(StartSignal)>>)

Continuation(i) == Eff("send", <<"URL_QUEUE_URL", JsonDumps([index |-> i])>>)

PageSuffix == <<"p", "a", "g", "e", "/">>

-----------------------------------------------------------------------------
(* C1: a run of the Enumerator that starts from the message {} and in      *)
(* which every continuation is delivered and no external call fails        *)
(* eventually publishes the completion notification and sends the start    *)
(* signal to the Collector's queue.                                        *)
(* The code never gets there: the step for index 191 raises IndexError.    *)
C1_RunCompletes ==
    <>(/\ "DB registered" \in Range(topic)
       /\ JsonDumps(StartSignal) \in Range(imgQueue))

-----------------------------------------------------------------------------
(* C2: an admitted Enumerator step in which no external call fails emits   *)
(* exactly one of two outcomes: if next_index = page_index + 1 is greater  *)
(* than 191, the completion notification and then the start signal to the  *)
(* Collector's queue, and no continuation; otherwise exactly the one       *)
(* continuation {index: next_index} to its own queue, and no completion.   *)
(* The code raises IndexError at page_index = 191 and emits nothing.       *)
C2_Boundary ==
    (Admitted /\ stage = "get_url" /\ raised # "ExternalError") =>
        LET next_index == Get(LastBody, "index", 0) + 1
        IN  IF next_index > 191
            THEN Signals = <<Completion, StartSend>>
            ELSE Signals = <<Continuation(next_index)>>

-----------------------------------------------------------------------------
(* C3, as amended: for every page_index in 0..190 an Enumerator step       *)
(* fetches exactly one index URL, base_url when page_index = 0 and         *)
(* base_url + "page/{page_index + 1}" when page_index >= 1; the generated  *)
(* sequence has exactly 191 entries, so page_index = 191 selects none and  *)
(* the step fetches nothing.                                               *)
C3_IndexUrl ==
    /\ Len(index_urls(BaseUrl)) = 191
    /\ index_urls(BaseUrl)[2] = <<"B", "/", "p", "a", "g", "e", "/", "2">>
    /\ (Admitted /\ stage = "get_url") =>
          LET page_index == Get(LastBody, "index", 0)
              fetched == Ops(eff, "fetch")
          IN  /\ page_index \in 0..191
              /\ page_index = 0 => fetched = <<Call("fetch", <<BaseUrl>>, indexPage)>>
              /\ page_index \in 1..190 =>
                    fetched = <<Call("fetch",
                                     <<BaseUrl \o PageSuffix \o Str(page_index + 1)>>,
                                     indexPage)>>
              /\ page_index = 191 => fetched = <<>> /\ raised = "IndexError"

(* C3 as stated: for every page_index in 0..191 the step fetches exactly   *)
(* one index URL, base_url when page_index = 0 and                         *)
(* base_url + "page/{page_index}" when page_index >= 1.                    *)
C3_AsStated ==
    (Admitted /\ stage = "get_url") =>
        LET page_index == Get(LastBody, "index", 0)
            fetched == Ops(eff, "fetch")
        IN  /\ page_index = 0 => fetched = <<Call("fetch", <<BaseUrl>>, indexPage)>>
            /\ page_index \in 1..191 =>
                  fetched = <<Call("fetch",
                                   <<BaseUrl \o PageSuffix \o Str(page_index)>>,
                                   indexPage)>>

(* the step for page_index = 190 has fetched page/191 *)
C3_Witness ==
    /\ Admitted /\ stage = "get_url"
    /\ Get(LastBody, "index", 0) = 190
    /\ Len(Ops(eff, "fetch")) = 1
    /\ Ops(eff, "fetch")[1].arg[1] =
          <<"B", "/", "p", "a", "g", "e", "/", "1", "9", "1">>

-----------------------------------------------------------------------------
(* C4: in both stages a message is rejected, and the stage logic not run,  *)
(* if and only if its retry count is strictly greater than the retry       *)
(* budget; a message with no retry field counts as retry 0 (and is         *)
(* admitted, the budget being non-negative), and one whose retry count     *)
(* equals the budget is admitted.                                          *)
C4_RetryGuard ==
    (Processed /\ LastText.valid) =>
        LET retry_count == IF "retry" \in DOMAIN LastBody THEN LastBody.retry ELSE 0
        IN  /\ dropped <=> retry_count > nRetry
            /\ dropped => eff = <<>> /\ raised = NoError
            /\ ~dropped => eff # <<>> \/ raised # NoError
            /\ "retry" \notin DOMAIN LastBody => ~dropped
            /\ retry_count = nRetry => ~dropped

(* a Collector message whose retry count equals the budget ran the scan *)
C4_Witness ==
    /\ Processed /\ LastText.valid /\ stage = "save_img"
    /\ "retry" \in DOMAIN LastBody /\ LastBody.retry = nRetry
    /\ ~dropped /\ Ops(eff, "scan") # <<>>

-----------------------------------------------------------------------------
(* C5: processing a message the Retry Guard rejects has no effect: no call *)
(* to the table, the blob store, a queue or the topic is made and their    *)
(* contents stay as they were, no error is raised, and the handler goes on *)
(* to the rest of the batch.                                               *)
C5_DropFrame ==
    [][ ( /\ pc = "control"
          /\ hist' # hist
          /\ records[ix + 1].body.valid
          /\ Get(records[ix + 1].body.obj, "retry", 0) > nRetry )
        => /\ eff' = <<>>
           /\ raised' = NoError
           /\ UNCHANGED <<table, bucket, urlQueue, imgQueue, topic>>
           /\ pc' = IF ix + 1 < Len(records) THEN "sleep" ELSE "done" ]_vars

(* after a dropped first message, the second message of the batch was      *)
(* processed and made its calls                                            *)
C5_Witness ==
    /\ Processed /\ ix = 1
    /\ records[1].body.valid
    /\ Get(records[1].body.obj, "retry", 0) > nRetry
    /\ ~dropped /\ eff # <<>> /\ raised = NoError

-----------------------------------------------------------------------------
(* the number of records control / control_loop has run on *)
Handled == Len(SelectSeq(hist, LAMBDA h : h[1] = "control"))

(* C6, as amended: a failure while processing message i (a parse error or  *)
(* an error of the stage logic) is not caught: it propagates out of the    *)
(* handler, the invocation ends there and messages i+1..n of the batch are *)
(* not processed; the effects of messages 1..i-1 stay.                     *)
C6_FailureAborts ==
    (Processed /\ raised # NoError) =>
        /\ pc = "failed"
        /\ Handled = ix + 1
        /\ ~ENABLED Next

(* C6 as stated: a failure while processing message i does not prevent     *)
(* messages i+1..n of the batch from being processed: when the handler is  *)
(* through, it has processed every message of the batch.                   *)
C6_AsStated == (pc \in {"done", "failed"}) => Handled = Len(records)

(* the first message of a batch of two is no JSON: the handler has ended   *)
(* without processing the second                                           *)
C6_Witness ==
    /\ Len(records) = 2 /\ ix = 0
    /\ pc = "failed" /\ raised = "JSONDecodeError"

-----------------------------------------------------------------------------
RECURSIVE Continuations(_, _)
(* the continuations get_url sends for the first k records of the batch,   *)
(* one by each admitted record, in delivery order                          *)
Continuations(k, budget) ==
    IF k = 0 THEN <<>>
    ELSE LET body == records[k].body.obj
         IN  Continuations(k - 1, budget)
             \o (IF Get(body, "retry", 0) > budget THEN <<>>
                 ELSE <<JsonDumps([index |-> Get(body, "index", 0) + 1])>>)

(* C7: the handler processes the messages of a batch one at a time, in     *)
(* delivery order, each with its outbound sends before the next starts,    *)
(* and waits exactly once between two consecutive messages: n - 1 waits    *)
(* for a batch of n that it gets through, none after the last message,     *)
(* also when a message was dropped by the Retry Guard.                     *)
C7_OrderAndDelay ==
    /\ \A k \in 1..Len(hist) :
          hist[k] = IF k % 2 = 1 THEN <<"control", (k - 1) \div 2>>
                    ELSE <<"sleep", (k - 2) \div 2>>
    /\ Len(hist) <= 2 * Len(records) - 1 \/ records = <<>>
    /\ pc = "control" => Len(hist) = 2 * ix
    /\ pc \in {"sleep", "failed"} => Len(hist) = 2 * ix + 1
    /\ (pc = "done" /\ records # <<>>) => Len(hist) = 2 * Len(records) - 1
    /\ (pc = "done" /\ stage = "get_url") =>
          urlQueue = Continuations(Len(records), nRetry)

(* a batch of two whose first message was dropped is through, with one     *)
(* wait                                                                    *)
C7_Witness ==
    /\ pc = "done" /\ Len(records) = 2
    /\ Get(records[1].body.obj, "retry", 0) > nRetry
    /\ hist = << <<"control", 0>>, <<"sleep", 0>>, <<"control", 1>> >>

-----------------------------------------------------------------------------
(* the kinds of the outbound signals of the step, in the order made *)
SignalOps == [k \in 1..Len(Signals) |-> Signals[k].op]

(* the answer of the scan the step made *)
Scanned == Ops(eff, "scan")[1].ret[1]

(* the step ran the Collector's logic to its end *)
CollectorStepDone ==
    Admitted /\ stage = "save_img" /\ raised = NoError /\ Ops(eff, "scan") # <<>>

(* C8: every admitted Collector step that does not fail emits exactly one  *)
(* outbound signal: the continuation {LastEvaluatedKey: <key>} to its own  *)
(* queue, carrying exactly the key the scan returned, if the scan's answer *)
(* carries a key, and otherwise a completion notification; never both and  *)
(* never neither.                                                          *)
C8_OneSignal ==
    /\ (Admitted /\ stage = "save_img" /\ raised = NoError) => Ops(eff, "scan") # <<>>
    /\ CollectorStepDone =>
          /\ Len(Signals) = 1
          /\ IF "LastEvaluatedKey" \in DOMAIN Scanned
             THEN Signals[1] =
                     Eff("send", <<"IMG_QUEUE_URL",
                                   [valid |-> TRUE,
                                    obj |-> [LastEvaluatedKey |-> Scanned.LastEvaluatedKey]]>>)
             ELSE Signals[1].op = "publish"

(* a step consumed the cursor k1, its scan answered the key k2, and it     *)
(* sent k2 on                                                              *)
C8_Witness ==
    /\ CollectorStepDone
    /\ Get(LastBody, "LastEvaluatedKey", "") = "k1"
    /\ "LastEvaluatedKey" \in DOMAIN Scanned
    /\ imgQueue # <<>>
    /\ imgQueue[Len(imgQueue)].obj = [LastEvaluatedKey |-> "k2"]

-----------------------------------------------------------------------------
(* C9: the item page is scraped if and only if the scan returned exactly   *)
(* one record, whether or not its answer carries a continuation key: no    *)
(* step fetches an item page without exactly one record, and a step that   *)
(* does not fail fetches the page of the one record (and of no other).  A  *)
(* scan with one record and no key both scrapes and publishes completion;  *)
(* one with no record and a key sends the continuation without scraping.   *)
C9_IndependentChecks ==
    (Admitted /\ stage = "save_img" /\ Ops(eff, "scan") # <<>>) =>
        LET one == Len(Scanned.Items) = 1
            key == "LastEvaluatedKey" \in DOMAIN Scanned
            fetched == Ops(eff, "fetch")
        IN  /\ fetched # <<>> => one
            /\ raised = NoError =>
                  /\ one => /\ Len(fetched) = 1
                            /\ fetched[1].arg = <<Scanned.Items[1].archive_url.S>>
                  /\ (one /\ ~key) => SignalOps = <<"publish">>
                  /\ (~one /\ key) => fetched = <<>> /\ SignalOps = <<"send">>

(* one record and no key: the step scraped the record, stored an image and *)
(* published the completion                                                *)
C9_Witness ==
    /\ CollectorStepDone
    /\ Len(Scanned.Items) = 1 /\ "LastEvaluatedKey" \notin DOMAIN Scanned
    /\ Len(Ops(eff, "fetch")) = 1 /\ Ops(eff, "upload") # <<>>
    /\ Len(Ops(eff, "publish")) = 1 /\ Ops(eff, "send") = <<>>

-----------------------------------------------------------------------------
(* the hrefs of the downloads and the data of the uploads of the step *)
Downloaded == [k \in 1..Len(Ops(eff, "download")) |-> Ops(eff, "download")[k].arg[1]]

Stored == [k \in 1..Len(Ops(eff, "upload")) |-> Ops(eff, "upload")[k].arg[2].content_of]

IsPrefix(s, t) == Len(s) <= Len(t) /\ s = SubSeq(t, 1, Len(s))

(* C10, as amended: among the links flagged "external" on an item page, a  *)
(* link is downloaded and stored if and only if its target contains       *)
(* "jpg" (anywhere, not only as its suffix) and does not contain "naver";  *)
(* every other link is skipped with no download and no blob write, and the *)
(* qualifying links are handled in the order encountered (a step that      *)
(* fails stops within that order).                                         *)
C10_LinkFilter ==
    (Admitted /\ stage = "save_img" /\ Ops(eff, "fetch") # <<>>) =>
        LET wanted == SelectSeq(itemPage,
                          LAMBDA u : /\ Contains(u, <<"j", "p", "g">>)
                                     /\ ~Contains(u, <<"n", "a", "v", "e", "r">>))
        IN  /\ Ops(eff, "fetch")[1].ret[1] = itemPage
            /\ IsPrefix(Downloaded, wanted)
            /\ IsPrefix(Stored, Downloaded)
            /\ Len(Downloaded) <= Len(Stored) + 1
            /\ raised = NoError => Downloaded = wanted /\ Stored = wanted

(* C10 as stated: a link is downloaded and stored if and only if its       *)
(* target ends with ".jpg" and does not contain "naver".                   *)
C10_AsStated ==
    (Admitted /\ stage = "save_img" /\ Ops(eff, "fetch") # <<>> /\ raised = NoError) =>
        LET wanted == SelectSeq(itemPage,
                          LAMBDA u : /\ EndsWith(u, <<".", "j", "p", "g">>)
                                     /\ ~Contains(u, <<"n", "a", "v", "e", "r">>))
        IN  Downloaded = wanted /\ Stored = wanted

(* of the page naver.jpg, q.jpg the step stored q.jpg alone *)
C10_Witness ==
    /\ CollectorStepDone
    /\ itemPage = << <<"n", "a", "v", "e", "r", ".", "j", "p", "g">>,
                     <<"q", ".", "j", "p", "g">> >>
    /\ Ops(eff, "fetch") # <<>>
    /\ Stored = << <<"q", ".", "j", "p", "g">> >>

-----------------------------------------------------------------------------
(* the keys of the objects a step uploaded, in the order uploaded *)
StoredKeys == [k \in 1..Len(Ops(eff, "upload")) |-> Ops(eff, "upload")[k].arg[1]]

(* k as three digits *)
Pad3(k) == IF k < 10 THEN <<"0", "0">> \o Str(k)
           ELSE IF k < 100 THEN <<"0">> \o Str(k)
           ELSE Str(k)

Suffixes(u) == {SubSeq(u, i, Len(u)) : i \in 1..Len(u)}

(* n is the last path segment of url *)
IsLastSegment(n, url) ==
    /\ ~Contains(n, <<"/">>)
    /\ \/ n = url
       \/ EndsWith(url, <<"/">> \o n)

(* save_img scraped the one record its scan returned and nothing failed *)
ScrapedWhole ==
    /\ stage = "save_img"
    /\ Admitted
    /\ raised = NoError
    /\ fault = NoFault
    /\ Ops(eff, "scan") # <<>>
    /\ Len(Scanned.Items) = 1

(* the links of the item page that qualify, in page order *)
QualifyingLinks == SelectSeq(itemPage, Qualifies)

PngSuffix == <<".", "p", "n", "g">>

(* C11 (as amended): when no download fails, the k-th qualifying link of   *)
(* an item (k from 0, counted over the qualifying links only: a skipped    *)
(* link does not advance the index) is stored under the key                *)
(* "{archive_number}_{k as three digits}.png", where archive_number is the *)
(* last path segment of the item URL; so the keys stored for one item are  *)
(* distinct and contiguous from 000.                                       *)
C11_KeySequence ==
    ScrapedWhole =>
        /\ Stored = QualifyingLinks
        /\ Len(StoredKeys) = Len(QualifyingLinks)
        /\ \E n \in Suffixes(Scanned.Items[1].archive_url.S) :
              /\ IsLastSegment(n, Scanned.Items[1].archive_url.S)
              /\ \A k \in 1..Len(StoredKeys) :
                    StoredKeys[k] = n \o <<"_">> \o Pad3(k - 1) \o PngSuffix
        /\ \A j, k \in 1..Len(StoredKeys) : j # k => StoredKeys[j] # StoredKeys[k]

(* C11 as stated: the key is "{archive_number}_{k as three digits}", and   *)
(* nothing more.                                                           *)
C11_AsStated ==
    ScrapedWhole =>
        \E n \in Suffixes(Scanned.Items[1].archive_url.S) :
           /\ IsLastSegment(n, Scanned.Items[1].archive_url.S)
           /\ \A k \in 1..Len(StoredKeys) : StoredKeys[k] = n \o <<"_">> \o Pad3(k - 1)

(* an item page whose first link is skipped and whose next two are stored  *)
(* under 000 and 001                                                       *)
C11_Witness ==
    /\ ScrapedWhole
    /\ Len(itemPage) = 3
    /\ ~Qualifies(itemPage[1])
    /\ StoredKeys = << <<"4", "2", "_", "0", "0", "0", ".", "p", "n", "g">>,
                       <<"4", "2", "_", "0", "0", "1", ".", "p", "n", "g">> >>

-----------------------------------------------------------------------------
(* the download of a qualifying link raised SSLError: the call that failed *)
(* comes after the page's fetch or an upload, and links are left           *)
DownloadFailed ==
    /\ stage = "save_img"
    /\ Admitted
    /\ fault.kind = "SSLError"
    /\ fault.at = Len(eff) + 1
    /\ eff # <<>>
    /\ eff[Len(eff)].op \in {"fetch", "upload"}
    /\ Len(Downloaded) < Len(QualifyingLinks)

(* C12: when the download of one qualifying link fails with a transport or *)
(* TLS error, the Collector step does not fail: the error is caught and    *)
(* logged, the link is skipped (no blob for it), the remaining links are   *)
(* processed and the step emits its continuation or completion.            *)
(* The code does not get that far: the except clause calls                 *)
(* logger.exception() without its message and raises TypeError.            *)
C12_DownloadFailureSkipped ==
    DownloadFailed =>
        /\ raised = NoError
        /\ Len(Signals) = 1
        /\ Len(Stored) = Len(QualifyingLinks) - 1

-----------------------------------------------------------------------------
(* the scan of the step processed last returned: what it answered *)
ScanAnswered == stage = "save_img" /\ Admitted /\ Ops(eff, "scan") # <<>>

(* C13: when the table's scan returns more than one record the step raises *)
(* an error for that invocation: no item page is scraped, no blob is       *)
(* written, no continuation is sent and no completion is published; a scan *)
(* that returns no record or one record raises no such error.              *)
C13_ScanContract ==
    ScanAnswered =>
        IF Len(Scanned.Items) > 1
        THEN /\ raised = "Exception"
             /\ pc = "failed"
             /\ Len(eff) = 1
             /\ Signals = <<>>
             /\ Ops(eff, "fetch") = <<>>
             /\ Ops(eff, "upload") = <<>>
        ELSE raised # "Exception"

(* a scan answered two records and a key: the step raised and did nothing  *)
(* else; the stores and queues are as they were                            *)
C13_Witness ==
    /\ ScanAnswered
    /\ Len(Scanned.Items) = 2
    /\ "LastEvaluatedKey" \in DOMAIN Scanned
    /\ raised = "Exception"
    /\ bucket = {} /\ imgQueue = <<>> /\ topic = <<>>

-----------------------------------------------------------------------------
(* get_url ran its stage logic on a message without an index *)
EmptyBodyStep == stage = "get_url" /\ Admitted /\ "index" \notin DOMAIN LastBody

(* the calls of the step for page_index 0, in order: the base URL is       *)
(* looked up and fetched, one record is put per item URL of the page, in   *)
(* page order, and the continuation {"index": 1} is sent last              *)
FirstPageCalls ==
    << Call("get_parameter", <<"URL_PARAM">>, BaseUrl),
       Call("fetch", <<BaseUrl>>, indexPage) >>
    \o [k \in 1..Len(indexPage) |-> Eff("put", <<pkey, indexPage[k]>>)]
    \o << Continuation(1) >>

(* C17: an Enumerator step on a message without an index is processed as   *)
(* page_index 0: it writes one Item Record per extracted item URL, in      *)
(* order, and only after all the writes sends the continuation             *)
(* {"index": 1}; if the fetch or any write fails, no outbound message is   *)
(* sent.                                                                   *)
C17_FirstStep ==
    EmptyBodyStep =>
        /\ IsPrefix(eff, FirstPageCalls)
        /\ (fault = NoFault) => (eff = FirstPageCalls /\ raised = NoError)
        /\ (fault # NoFault) => (raised # NoError /\ Signals = <<>>)
        /\ (Signals # <<>>) => Len(Ops(eff, "put")) = Len(indexPage)

(* the page lists two items: both are put, then {"index": 1} is sent *)
C17_Witness ==
    /\ EmptyBodyStep
    /\ Len(indexPage) = 2
    /\ raised = NoError
    /\ eff = FirstPageCalls
    /\ urlQueue = << JsonDumps([index |-> 1]) >>
    /\ Cardinality(table) = 2

-----------------------------------------------------------------------------
(* a key the stage's EnvironParams names is not set *)
KeyAbsent == \E k \in Fields(stage) : k \notin environ

(* C16: if any required configuration key of a stage is absent from the    *)
(* environment, the invocation aborts before any message is parsed or      *)
(* processed: no table, blob, queue or notification operation is           *)
(* performed.                                                              *)
C16_FailFast ==
    KeyAbsent =>
        /\ pc \in {"start", "aborted"}
        /\ pc = "aborted" => raised = "KeyError"
        /\ hist = <<>>
        /\ eff = <<>>
        /\ NoServiceState
        /\ scraped = <<>>

(* a batch of two messages was delivered and PKEY is not set: the handler  *)
(* raised before its loop                                                  *)
C16_Witness ==
    /\ pc = "aborted"
    /\ Len(records) = 2
    /\ "PKEY" \notin environ
    /\ raised = "KeyError"

-----------------------------------------------------------------------------
(* the rows of the table as the Enumerator put them: the stored URLs *)
StoredUrls == {row[2] : row \in table}

(* C19: for every configured partition-key attribute name, each Item       *)
(* Record written by the Enumerator can be consumed by the Collector: the  *)
(* Collector reads exactly the URL the Enumerator stored and does not fail *)
(* on the record's shape.                                                  *)
(* The Collector reads the attribute "archive_url" whatever PKEY is.       *)
C19_RecordCompatible ==
    (ScanAnswered /\ Len(Scanned.Items) = 1) =>
        /\ raised # "KeyError"
        /\ Len(Ops(eff, "fetch")) = 1
        /\ Len(Ops(eff, "fetch")) = 1 => Ops(eff, "fetch")[1].arg[1] \in StoredUrls

(* C18: a Collector run over a finite table, from the start signal, with   *)
(* every continuation delivered once, the table not modified and the scan  *)
(* paging one record at a time, terminates: every record of the table has  *)
(* been scraped exactly once, the completion has been published exactly    *)
(* once, and no continuation is sent after it.                             *)
C18_RunTerminates ==
    /\ <>[](/\ pc = "done"
            /\ imgQueue = <<>>
            /\ topic = <<"all done">>
            /\ Len(scraped) = Cardinality(StoredUrls)
            /\ Range(scraped) = StoredUrls)
    /\ [](topic # <<>> => (imgQueue = <<>> /\ pc = "done"))

-----------------------------------------------------------------------------
(* the handler is about to process, with no failure, the message it        *)
(* processed just before: records[ix + 1] is records[ix] over again, and   *)
(* the table's scan, if any, answers as it did                             *)
SameMessageAgain ==
    /\ pc = "control"
    /\ hist' = Append(hist, <<"control", ix>>)
    /\ ix >= 1
    /\ records[ix + 1] = records[ix]
    /\ raised' = NoError
    /\ fault' = NoFault
    /\ Ops(eff', "scan") = Ops(eff, "scan")

(* C14: processing the same message twice, against the same page content   *)
(* and table content, makes the same calls both times: the same store      *)
(* writes and the same outbound message, for both stages; the second       *)
(* processing leaves the table and the bucket as the first left them.      *)
C14_StepIdempotent ==
    [][SameMessageAgain =>
          /\ eff' = eff
          /\ dropped' = dropped
          /\ table' = table
          /\ bucket' = bucket]_vars

(* the start signal was processed twice with the same record scanned: one  *)
(* object is stored and the same continuation is in flight twice           *)
C14_Witness ==
    /\ stage = "save_img"
    /\ Admitted
    /\ ix = 1
    /\ records[1] = records[2]
    /\ raised = NoError
    /\ Len(Ops(eff, "upload")) = 1
    /\ Cardinality(bucket) = 1
    /\ Len(imgQueue) = 2
    /\ imgQueue[1] = imgQueue[2]

-----------------------------------------------------------------------------
(* no invocation is running and no message is in flight *)
Quiet == pc = "done" /\ urlQueue = <<>> /\ imgQueue = <<>>

RECURSIVE OnceBucket(_, _)
(* the bucket after the run of save_img from the message `body` in which   *)
(* every message is delivered exactly once, over the table as it is        *)
OnceBucket(body, objects) ==
    LET resp == CHOOSE r \in TableScan(table, Get(body, "LastEvaluatedKey", "")) : TRUE
        r == save_img_control(body, resp, itemPage, 0, "ExternalError")
        objs == Uploaded(objects, Ops(r.eff, "upload"))
        sent == SentTo(r.eff, "IMG_QUEUE_URL")
    IN  IF r.raised # NoError \/ sent = <<>> THEN objs
        ELSE OnceBucket(sent[1].obj, objs)

(* the table after the run of get_url in which every message is delivered  *)
(* exactly once: every index page lists the same items                     *)
OnceTable == Rows(Range(indexPage))

(* C15: when messages are delivered more than once, or the messages of     *)
(* different invocations are processed in any order, the table and the     *)
(* bucket never hold anything the run with every message delivered exactly *)
(* once would not hold, and when the run is over (the completion           *)
(* published, nothing in flight) they hold exactly what that run leaves:   *)
(* duplicates cause only scans and scrapes over again, overwrites of equal *)
(* keys and sends over again.                                              *)
C15_ReplaySafe ==
    /\ table \subseteq OnceTable
    /\ bucket \subseteq OnceBucket(StartSignal, {})
    /\ Quiet => table = OnceTable
    /\ (Quiet /\ "all done" \in Range(topic)) => bucket = OnceBucket(StartSignal, {})

(* a run with a message delivered over again came to its end: item pages   *)
(* were scraped more often than there are records, and the bucket holds    *)
(* one object per record                                                   *)
C15_Witness ==
    /\ Quiet
    /\ dups >= 1
    /\ "all done" \in Range(topic)
    /\ Len(scraped) > Cardinality(table)
    /\ Cardinality(bucket) = Cardinality(table)
    /\ bucket # {}

-----------------------------------------------------------------------------
(* the bodies of the messages the step processed last sent *)
SentBodies == [k \in 1..Len(Ops(eff, "send")) |-> Ops(eff, "send")[k].arg[2].obj]

(* C20: no step of either stage sends a message with a retry field; a step *)
(* whose stage logic fails sends nothing; so in a run started from a       *)
(* message whose retry count is within the budget no message is ever       *)
(* dropped by the retry check.                                             *)
C20_RetryDormant ==
    /\ \A k \in 1..Len(SentBodies) : "retry" \notin DOMAIN SentBodies[k]
    /\ raised # NoError => Ops(eff, "send") = <<>>
    /\ ~dropped

(* the step for a message {"index": 189, "retry": 1} sent {"index": 190}   *)
C20_Witness ==
    /\ stage = "get_url"
    /\ Admitted
    /\ "retry" \in DOMAIN LastBody
    /\ raised = NoError
    /\ SentBodies = << [index |-> 190] >>

====
